---- MODULE Spec2Model ----
(***************************************************************************)
(* Model of src/TITAN_Unrolled/model.py: the unrolled TITAN network.       *)
(*                                                                         *)
(* Scalars (torch 0-dim tensors and Python floats) are extended rationals  *)
(* <<n, d>>: d > 0 is the finite value n/d in lowest terms, <<1, 0>> is    *)
(* +inf, <<-1, 0>> is -inf and <<0, 0>> is NaN, with the IEEE-754 rules    *)
(* torch applies to division by zero, inf - inf, 0 * inf and sqrt of a     *)
(* negative number.                                                        *)
(***************************************************************************)
EXTENDS Integers, Sequences, FiniteSets, TLC

----------------------------------------------------------------------------
(* Extended rational arithmetic *)

None == "None"

Abs(x) == IF x < 0 THEN -x ELSE x

Sign(x) == IF x < 0 THEN -1 ELSE IF x > 0 THEN 1 ELSE 0

RECURSIVE GCD(_, _)
GCD(a, b) == IF b = 0 THEN a ELSE GCD(b, a % b)

PosInf == <<1, 0>>
NegInf == <<-1, 0>>
NaN == <<0, 0>>

\* n/d for d # 0, in lowest terms with a positive denominator
Frac(n, d) ==
    LET g == GCD(Abs(n), Abs(d))
    IN  <<Sign(d) * (n \div g), Abs(d) \div g>>

IsNaN(a) == a = NaN
IsInf(a) == a[2] = 0 /\ a[1] # 0
IsFinite(a) == a[2] > 0

\* the sign of a scalar that is not NaN
SignOf(a) == Sign(a[1])

RNeg(a) == <<-a[1], a[2]>>

RAdd(a, b) ==
    IF IsNaN(a) \/ IsNaN(b) THEN NaN
    ELSE IF IsInf(a) /\ IsInf(b) THEN (IF a = b THEN a ELSE NaN)
    ELSE IF IsInf(a) THEN a
    ELSE IF IsInf(b) THEN b
    ELSE Frac(a[1] * b[2] + b[1] * a[2], a[2] * b[2])

RSub(a, b) == RAdd(a, RNeg(b))

RMul(a, b) ==
    IF IsNaN(a) \/ IsNaN(b) THEN NaN
    ELSE IF IsInf(a) \/ IsInf(b)
         THEN (IF SignOf(a) * SignOf(b) = 0 THEN NaN ELSE <<SignOf(a) * SignOf(b), 0>>)
    ELSE Frac(a[1] * b[1], a[2] * b[2])

RDiv(a, b) ==
    IF IsNaN(a) \/ IsNaN(b) THEN NaN
    ELSE IF IsInf(a) THEN (IF IsInf(b) THEN NaN
                           ELSE IF SignOf(b) < 0 THEN RNeg(a) ELSE a)
    ELSE IF IsInf(b) THEN <<0, 1>>
    ELSE IF b[1] = 0 THEN (IF a[1] = 0 THEN NaN ELSE <<SignOf(a), 0>>)
    ELSE Frac(a[1] * b[2], a[2] * b[1])

\* a < b; false when either side is NaN
RLt(a, b) ==
    IF IsNaN(a) \/ IsNaN(b) THEN FALSE
    ELSE IF IsInf(a) \/ IsInf(b)
         THEN (IF IsInf(a) /\ IsInf(b) THEN a[1] < b[1]
               ELSE IF IsInf(a) THEN a[1] < 0
               ELSE b[1] > 0)
    ELSE a[1] * b[2] < b[1] * a[2]

RLe(a, b) == RLt(a, b) \/ (a = b /\ ~IsNaN(a))

\* torch.max / torch.min of two scalars: NaN propagates
RMax(a, b) == IF IsNaN(a) \/ IsNaN(b) THEN NaN ELSE IF RLt(a, b) THEN b ELSE a

RMin(a, b) == IF IsNaN(a) \/ IsNaN(b) THEN NaN ELSE IF RLt(b, a) THEN b ELSE a

RECURSIVE IsqrtBetween(_, _, _)
\* the largest r in lo..hi with r * r <= x
IsqrtBetween(x, lo, hi) ==
    IF lo >= hi THEN lo
    ELSE LET mid == (lo + hi + 1) \div 2
         IN  IF mid * mid <= x THEN IsqrtBetween(x, mid, hi)
             ELSE IsqrtBetween(x, lo, mid - 1)

Isqrt(x) == IsqrtBetween(x, 0, IF x < 46340 THEN x ELSE 46340)

\* torch.sqrt: NaN below zero, otherwise the root rounded down to a multiple
\* of 1/100 (the rounding of the floating-point root)
RSqrt(a) ==
    IF IsNaN(a) THEN NaN
    ELSE IF IsInf(a) THEN (IF a[1] > 0 THEN PosInf ELSE NaN)
    ELSE IF a[1] < 0 THEN NaN
    ELSE Frac(Isqrt((a[1] * 10000) \div a[2]), 100)

Num(k) == <<k, 1>>
One == <<1, 1>>
Two == <<2, 1>>
RZero == <<0, 1>>

----------------------------------------------------------------------------
(* Tensors.  A tensor is the expression that produced it: a record          *)
(* [op, args, q, mag, K].  The primitives of functions.py / tools.py are   *)
(* not interpreted: their results are expression nodes over their          *)
(* arguments, so two tensors are equal only when they were computed the    *)
(* same way from the same inputs.  torch's +, - and scalar * are also      *)
(* nodes, except for the exact identities x - x = 0, b * 0 = 0 (b finite)  *)
(* and x + 0 = x.  mag is the tensor's magnitude class, which the          *)
(* scalar-valued primitives (spectral norm, Lipschitz bound, the alpha     *)
(* network) read; K is the leading dimension of the tensor's shape.        *)

\* the value of e, computed once and bound to the name F takes: what a Python
\* assignment name = e does before the statements F stands for run
Bind(e, F(_)) == CHOOSE r \in {F(v) : v \in {e}} : TRUE

\* number of magnitude classes of computed tensors
MagMod == 5

Leaf(name, mag, K) == [op |-> name, args |-> <<>>, q |-> RZero, mag |-> mag, K |-> K]

\* the content of a tensor variable that has not been assigned yet
NoTensor == Leaf("none", 0, 0)

\* a scalar used as an operand of a tensor expression
Scalar(q) == [op |-> "scalar", args |-> <<>>, q |-> q, mag |-> 0, K |-> 0]

RECURSIVE SumMag(_)
SumMag(args) ==
    IF args = <<>> THEN 0
    ELSE Len(args) * args[Len(args)].mag + SumMag(SubSeq(args, 1, Len(args) - 1))

\* the result of an operation of arity Len(args), shaped like args[shapeOf]
Node(op, code, args, shapeOf) ==
    Bind(args, LAMBDA a :
        [op |-> op, args |-> a, q |-> RZero,
         mag |-> 1 + ((code + SumMag(a)) % MagMod), K |-> a[shapeOf].K])

Zeros(K) == [op |-> "zeros", args |-> <<>>, q |-> RZero, mag |-> 0, K |-> K]

NaNs(K) == [op |-> "nan", args |-> <<>>, q |-> NaN, mag |-> 0, K |-> K]

\* a - b
TSub(a, b) ==
    IF a.op = "nan" \/ b.op = "nan" THEN NaNs(a.K)
    ELSE IF a = b THEN Zeros(a.K)
    ELSE Node("sub", 6, <<a, b>>, 1)

\* q * t for a scalar q
TScale(q, t) ==
    IF t.op = "nan" \/ IsNaN(q) THEN NaNs(t.K)
    ELSE IF t.op = "zeros" THEN (IF IsFinite(q) THEN t ELSE NaNs(t.K))
    ELSE Node("scale", 7, <<Scalar(q), t>>, 2)

\* a + b
TAdd(a, b) ==
    IF a.op = "nan" \/ b.op = "nan" THEN NaNs(a.K)
    ELSE IF b.op = "zeros" THEN a
    ELSE IF a.op = "zeros" THEN b
    ELSE Node("add", 5, <<a, b>>, 1)

----------------------------------------------------------------------------
(* The primitives imported from functions.py and tools.py *)

\* spectral norm of the observed covariance: the magnitude the leaf Rx carries
spectral_norm_extracted(Rx, K, N) == Rx.q

\* Lipschitz surrogate of the data-fit term for the covariance estimate C
lipschitz(C, rho_Rx) == RMul(rho_Rx, Num(C.mag))

grad_H_W(W, C, Rx) == Node("grad_H_W", 1, <<W, C, Rx>>, 1)

prox_f(W, c_w) == Node("prox_f", 2, <<W, Scalar(c_w)>>, 1)

grad_H_C_reg(W, C, Rx, alpha) == Node("grad_H_C_reg", 3, <<W, C, Rx, Scalar(alpha)>>, 2)

prox_g(C, c_c, eps) == Node("prox_g", 4, <<C, Scalar(c_c), Scalar(eps)>>, 1)

----------------------------------------------------------------------------
(* Block.get_coefficients *)

get_coefficients(self, Rx, alpha, C, C_old) ==
    LET K == C.K
        rho_Rx == spectral_norm_extracted(Rx, K, K)
        l_sup == RMax(RDiv(RMul(self.gamma_w, alpha), RSub(One, self.gamma_w)),
                      RMul(RMul(RMul(rho_Rx, Two), Num(K)),
                           RAdd(One, RSqrt(RDiv(Two, RMul(alpha, self.gamma_c))))))
        expr3 == RDiv(RMul(self.gamma_c, self.gamma_c), Num(K * K))
        expr4 == RDiv(RMul(alpha, self.gamma_w),
                      RMul(RMul(RAdd(One, self.zeta), RSub(One, self.gamma_w)), l_sup))
        expr5 == RDiv(rho_Rx, RMul(RAdd(One, self.zeta), l_sup))
        C0 == RMin(RMin(expr3, expr4), expr5)
        L_inf == RMul(RMul(RAdd(One, self.zeta), C0), l_sup)
        L_w_prev == RMax(L_inf, lipschitz(C_old, rho_Rx))
        L_w == RMax(L_inf, lipschitz(C, rho_Rx))
        c_w == RDiv(self.gamma_w, L_w)
        beta_w == RMul(RSub(One, self.gamma_w),
                       RSqrt(RDiv(RMul(RMul(RMul(C0, self.nu), RSub(One, self.nu)), L_w_prev),
                                  L_w)))
        c_c == RDiv(self.gamma_c, alpha)
        beta_c == RSqrt(RMul(RMul(C0, self.nu), RSub(One, self.nu)))
    IN  [raised |-> FALSE, c_w |-> c_w, beta_w |-> beta_w, c_c |-> c_c, beta_c |-> beta_c]

----------------------------------------------------------------------------
(* FCNN_alpha: the alpha network of a block.  theta stands for the weights  *)
(* of fc1, fc2, fc3.  The final Softplus makes the output positive.         *)

\* the outputs of the alpha network
AlphaVals == <<<<1, 2>>, <<2, 1>>, <<8, 1>>>>

FCNN_alpha_forward(theta, W, C) ==
    AlphaVals[((theta + W.mag + 2 * C.mag) % Len(AlphaVals)) + 1]

----------------------------------------------------------------------------
(* W_iter *)

W_iter_inertial_step(beta_w, W, W_old) == TAdd(W, TScale(beta_w, TSub(W, W_old)))

W_iter_gradient_step(Rx, c_w, W, C) == TSub(W, TScale(c_w, grad_H_W(W, C, Rx)))

W_iter_prox_step(c_w, W) == prox_f(W, c_w)

\* W_iter.update: returns <<W_prox, W_old>> with W_old re-snapshotted to the W it was given
W_iter_update_stale(Rx, W, W_old, C, c_w, beta_w) ==
    Bind(W_iter_inertial_step(beta_w, W, W_old), LAMBDA W_inertial :
    Bind(W_iter_gradient_step(Rx, c_w, W_inertial, C), LAMBDA W_gradient :
    Bind(W_iter_prox_step(c_w, W_gradient), LAMBDA W_prox :
        <<W_prox, W_old>>)))

W_iter_update(Rx, W, W_old, C, c_w, beta_w) ==
    Bind(W_iter_inertial_step(beta_w, W, W_old), LAMBDA W_inertial :
    Bind(W, LAMBDA W_old_new :
    Bind(W_iter_gradient_step(Rx, c_w, W_inertial, C), LAMBDA W_gradient :
    Bind(W_iter_prox_step(c_w, W_gradient), LAMBDA W_prox :
        <<W_prox, W_old_new>>))))

\* the loop test of W_iter.forward: are there sub-steps left after j of them
W_iter_more_first_only(N_updates_W, j) == j < 1

W_iter_more(N_updates_W, j) == j < N_updates_W

RECURSIVE W_iter_loop(_, _, _, _, _, _, _, _)
\* the loop of W_iter.forward from sub-step j on, as <<W, W_old>>
W_iter_loop(N_updates_W, j, Rx, W, W_old, C, c_w, beta_w) ==
    IF W_iter_more(N_updates_W, j)
    THEN Bind(W_iter_update(Rx, W, W_old, C, c_w, beta_w), LAMBDA r :
             W_iter_loop(N_updates_W, j + 1, Rx, r[1], r[2], C, c_w, beta_w))
    ELSE <<W, W_old>>

W_iter_forward(N_updates_W, Rx, W, C, c_w, beta_w) ==
    W_iter_loop(N_updates_W, 0, Rx, W, W, C, c_w, beta_w)[1]

----------------------------------------------------------------------------
(* C_iter *)

C_iter_inertial_step_no_difference(beta_c, C, C_old) == TAdd(C, TScale(beta_c, C))

C_iter_inertial_step(beta_c, C, C_old) == TAdd(C, TScale(beta_c, TSub(C, C_old)))

C_iter_gradient_step(Rx, c_c, C, W, alpha) ==
    TSub(C, TScale(c_c, grad_H_C_reg(W, C, Rx, alpha)))

C_iter_prox_step(c_c, C, eps) == prox_g(C, c_c, eps)

\* C_iter.update: returns <<C_prox, C_old>>
C_iter_update(Rx, C, C_old, W_updated, c_c, beta_c, alpha, eps) ==
    Bind(C_iter_inertial_step(beta_c, C, C_old), LAMBDA C_inertial :
    Bind(C, LAMBDA C_old_new :
    Bind(C_iter_gradient_step(Rx, c_c, C_inertial, W_updated, alpha), LAMBDA C_gradient :
    Bind(C_iter_prox_step(c_c, C_gradient, eps), LAMBDA C_prox :
        <<C_prox, C_old_new>>))))

RECURSIVE C_iter_loop_to_end(_, _, _, _, _, _, _, _, _)
\* a loop that runs all its iterations and returns after the last one
C_iter_loop_to_end(n, Rx, C, C_old, W_updated, c_c, beta_c, alpha, eps) ==
    IF n = 0 THEN <<C, C_old>>
    ELSE Bind(C_iter_update(Rx, C, C, W_updated, c_c, beta_c, alpha, eps), LAMBDA r :
             C_iter_loop_to_end(n - 1, Rx, r[1], r[2], W_updated, c_c, beta_c, alpha, eps))

C_iter_forward_all_steps(N_updates_C, Rx, C, W_updated, c_c, beta_c, alpha, eps) ==
    C_iter_loop_to_end(N_updates_C, Rx, C, C, W_updated, c_c, beta_c, alpha, eps)

\* C_iter.forward: the return statement is inside the loop body, so the first
\* iteration returns.  (N_updates_C >= 1; with 0 the Python method returns None.)
C_iter_forward(N_updates_C, Rx, C, W_updated, c_c, beta_c, alpha, eps) ==
    Bind(C, LAMBDA C_old :
        C_iter_update(Rx, C, C_old, W_updated, c_c, beta_c, alpha, eps))

----------------------------------------------------------------------------
(* Block.forward, as one function: <<W_updated, C_updated, C_old>> *)

Block_forward(self, Rx, W, C, C_old) ==
    Bind(FCNN_alpha_forward(self.theta, W, C), LAMBDA alpha :
    Bind(get_coefficients(self, Rx, alpha, C, C_old), LAMBDA cf :
    Bind(W_iter_forward(self.N_updates_W, Rx, W, C, cf.c_w, cf.beta_w), LAMBDA W_updated :
    Bind(C_iter_forward(self.N_updates_C, Rx, C, W_updated, cf.c_c, cf.beta_c,
                        alpha, self.eps), LAMBDA r :
        <<W_updated, r[1], r[2]>>))))

----------------------------------------------------------------------------
(* myModel.  Layers is the nn.ModuleList, a function on 0..num_layers-1; a  *)
(* layer is [self, requires_grad, grad, training]: the Block, whether its    *)
(* parameters require gradients, their accumulated gradient (None or "set")  *)
(* and the module's training flag (False after eval()).                      *)

NumLayersOf(Layers) == Cardinality(DOMAIN Layers)

\* nn.ModuleList.__getitem__: negative indices count from the end, anything
\* outside -len..len-1 raises IndexError
IndexInRange(Layers, idx) == -NumLayersOf(Layers) <= idx /\ idx < NumLayersOf(Layers)

ModuleListGet(Layers, idx) == Layers[IF idx < 0 THEN idx + NumLayersOf(Layers) ELSE idx]

Freeze(layer) == [layer EXCEPT !.training = FALSE, !.requires_grad = FALSE, !.grad = None]

\* a freezing loop that sets every layer's flag from its index
GradFalse_flags_by_index(Layers, block, mode) ==
    IF block >= 1
    THEN IF mode = "greedy" /\ ~IndexInRange(Layers, block)
         THEN [Layers |-> Layers, raised |-> TRUE]
         ELSE LET copied ==
                      IF mode = "greedy"
                      THEN [Layers EXCEPT ![block].self.theta = Layers[block - 1].self.theta]
                      ELSE Layers
              IN  [Layers |-> [i \in DOMAIN Layers |->
                                 IF i < block THEN Freeze(copied[i])
                                 ELSE [copied[i] EXCEPT !.requires_grad = TRUE,
                                                        !.training = TRUE]],
                   raised |-> block > NumLayersOf(Layers)]
    ELSE [Layers |-> Layers, raised |-> FALSE]

\* a freezing loop that runs over range(0, block + 1)
GradFalse_freezes_target(Layers, block, mode) ==
    IF block >= 1
    THEN IF mode = "greedy" /\ ~IndexInRange(Layers, block)
         THEN [Layers |-> Layers, raised |-> TRUE]
         ELSE LET copied ==
                      IF mode = "greedy"
                      THEN [Layers EXCEPT ![block].self.theta = Layers[block - 1].self.theta]
                      ELSE Layers
              IN  [Layers |-> [i \in DOMAIN Layers |->
                                 IF i < block + 1 THEN Freeze(copied[i]) ELSE copied[i]],
                   raised |-> block + 1 > NumLayersOf(Layers)]
    ELSE [Layers |-> Layers, raised |-> FALSE]

\* myModel.GradFalse: the layers after the call, and whether it raised IndexError.
\* In 'greedy' mode Layers[block] is indexed before anything is frozen; otherwise
\* the loop freezes every existing layer below block and raises on the first
\* index that does not exist.
GradFalse(Layers, block, mode) ==
    IF block >= 1
    THEN IF mode = "greedy" /\ ~IndexInRange(Layers, block)
         THEN [Layers |-> Layers, raised |-> TRUE]
         ELSE LET copied ==
                      IF mode = "greedy"
                      THEN [Layers EXCEPT ![block].self.theta = Layers[block - 1].self.theta]
                      ELSE Layers
              IN  [Layers |-> [i \in DOMAIN Layers |->
                                 IF i < block THEN Freeze(copied[i]) ELSE copied[i]],
                   raised |-> block > NumLayersOf(Layers)]
    ELSE [Layers |-> Layers, raised |-> FALSE]

\* one invocation of a block by myModel.forward, as recorded in the result
BlockCallRecord(idx, C, C_old) == [layer |-> idx, C |-> C, C_old |-> C_old]

NoResult == [raised |-> FALSE, W |-> NoTensor, C |-> NoTensor, calls |-> <<>>]

\* the branch of myModel.forward for 'first_layer' and 'greedy'
forward_single(Layers, Rx, W, C, layer) ==
    IF ~IndexInRange(Layers, layer)
    THEN [NoResult EXCEPT !.raised = TRUE]
    ELSE Bind(C, LAMBDA C_old :
         Bind(Block_forward(ModuleListGet(Layers, layer).self, Rx, W, C, C_old), LAMBDA r :
             [raised |-> FALSE, W |-> r[1], C |-> r[2],
              calls |-> <<BlockCallRecord(layer, C, C_old)>>]))

RECURSIVE forward_test_loop_stale(_, _, _, _, _, _, _)
\* a loop that takes the snapshot C_old = C once, before the first layer, and
\* then hands every layer the C_old the previous layer returned
forward_test_loop_stale(Layers, i, Rx, W, C, C_prev, calls) ==
    IF i >= NumLayersOf(Layers)
    THEN [raised |-> FALSE, W |-> W, C |-> C, calls |-> calls]
    ELSE Bind(IF i = 0 THEN C ELSE C_prev, LAMBDA C_old :
         Bind(Block_forward(Layers[i].self, Rx, W, C, C_old), LAMBDA r :
         Bind(Append(calls, BlockCallRecord(i, C, C_old)), LAMBDA called :
             forward_test_loop_stale(Layers, i + 1, Rx, r[1], r[2], r[3], called))))

RECURSIVE forward_test_loop(_, _, _, _, _, _, _)
\* the loop of the 'test' branch from layer i on; C_prev is the C_old the
\* previous layer returned, which the snapshot C_old = C.clone() overwrites
forward_test_loop(Layers, i, Rx, W, C, C_prev, calls) ==
    IF i >= NumLayersOf(Layers)
    THEN [raised |-> FALSE, W |-> W, C |-> C, calls |-> calls]
    ELSE Bind(C, LAMBDA C_old :
         Bind(Block_forward(Layers[i].self, Rx, W, C, C_old), LAMBDA r :
         Bind(Append(calls, BlockCallRecord(i, C, C_old)), LAMBDA called :
             forward_test_loop(Layers, i + 1, Rx, r[1], r[2], r[3], called))))

\* myModel.forward: [raised, W, C, calls]; a mode that is none of the three
\* falls through both branches and returns the W and C it was given
myModel_forward(Layers, Rx, W, C, mode, layer) ==
    IF mode = "first_layer" \/ mode = "greedy"
    THEN forward_single(Layers, Rx, W, C, layer)
    ELSE IF mode = "test"
    THEN forward_test_loop(Layers, 0, Rx, W, C, C, <<>>)
    ELSE [raised |-> FALSE, W |-> W, C |-> C, calls |-> <<>>]

----------------------------------------------------------------------------
(* State *)

VARIABLES
    coef,    \* one call of Block.get_coefficients: its arguments and its result
    blk,     \* one Block object and the invocation of Block.forward running on it
    net,     \* myModel.Layers
    maxBlock,\* the largest block argument GradFalse has been called with so far
    call,    \* the most recent call on the model: its arguments, what it returned,
             \* and for GradFalse the largest earlier block argument (prevMax) and
             \* the parameters layer block-1 held when it was called (source)
    chain    \* a manual chain of single-block forward calls, one per layer

netVars == <<net, maxBlock, call, chain>>

vars == <<coef, blk, net, maxBlock, call, chain>>

\* the values of gamma_w a Block is constructed with
GammaWSet == {<<1, 2>>, <<99, 100>>}

\* a Block object: its alpha network's parameters and its constructor arguments
NewBlock(theta, nW, nC, gamma_w) ==
    [theta |-> theta, N_updates_W |-> nW, N_updates_C |-> nC,
     gamma_c |-> One, gamma_w |-> gamma_w, eps |-> <<1, 1000>>,
     nu |-> <<1, 2>>, zeta |-> <<1, 10>>]

\* leading dimensions K of the inputs
KSet == {1, 2}

\* largest N_updates_W and N_updates_C a block is constructed with
MaxNW == 3
MaxNC == 2

\* parameter settings the alpha networks take
ThetaSet == {0, 1}

\* magnitude classes of the input covariance estimates
InputMags == {1, 3, 64}

\* spectral norms of the observed covariance
RhoSet == {<<1, 2>>, <<1, 1>>, <<4, 1>>}

\* values of alpha handed to get_coefficients (0 is the float32 underflow of Softplus)
AlphaArgs == {<<0, 1>>, <<1, 2>>, <<2, 1>>, <<8, 1>>}

RxInputs(K) == {[Leaf("Rx", 1, K) EXCEPT !.q = r] : r \in RhoSet}
WInputs(K) == {Leaf("W", 1, K)}
CInputs(K) == {Leaf("C", m, K) : m \in InputMags}
ColdInputs(K) == {Leaf("C_old", m, K) : m \in InputMags}

\* the value of the result slot before the call has returned
NoCoefficients ==
    [raised |-> FALSE, c_w |-> NaN, beta_w |-> NaN, c_c |-> NaN, beta_c |-> NaN]

CoefIdle ==
    [self |-> NewBlock(0, 1, 1, <<1, 2>>), Rx |-> NoTensor, alpha |-> NaN, C |-> NoTensor,
     C_old |-> NoTensor, called |-> TRUE, out |-> NoCoefficients]

\* a freshly constructed layer: trainable, no gradient yet, in training mode
NewLayer(theta, nW) ==
    [self |-> NewBlock(theta, nW, 1, <<99, 100>>), requires_grad |-> TRUE, grad |-> None,
     training |-> TRUE]

CallIdle ==
    [op |-> "none", block |-> 0, mode |-> "", layer |-> 0, prevMax |-> 0, source |-> 0,
     Rx |-> NoTensor, W |-> NoTensor, C |-> NoTensor, out |-> NoResult]

ChainIdle ==
    [i |-> 0, Rx |-> NoTensor, W0 |-> NoTensor, C0 |-> NoTensor, W |-> NoTensor,
     C |-> NoTensor, calls |-> <<>>]

NetIdle ==
    /\ net = [i \in {0} |-> NewLayer(0, 1)]
    /\ maxBlock = 0
    /\ call = CallIdle
    /\ chain = ChainIdle

BlkIdle(self) ==
    [pc |-> "idle", self |-> self, Rx |-> NoTensor, W_in |-> NoTensor, C_in |-> NoTensor,
     C_old_in |-> NoTensor, alpha |-> NaN, cf |-> NoCoefficients, W |-> NoTensor,
     W_old |-> NoTensor, j |-> 0, C_updated |-> NoTensor, C_old |-> NoTensor, log |-> <<>>]

----------------------------------------------------------------------------
(* A direct call of Block.get_coefficients *)

CoefInit ==
    /\ \E k \in KSet :
         coef \in [self : {NewBlock(0, 1, 1, g) : g \in GammaWSet},
                   Rx : RxInputs(k), alpha : AlphaArgs, C : CInputs(k),
                   C_old : ColdInputs(k), called : {FALSE}, out : {NoCoefficients}]
    /\ blk = BlkIdle(NewBlock(0, 1, 1, <<1, 2>>))
    /\ NetIdle

CallGetCoefficients ==
    /\ ~coef.called
    /\ coef' = [coef EXCEPT !.called = TRUE,
                            !.out = get_coefficients(coef.self, coef.Rx, coef.alpha,
                                                     coef.C, coef.C_old)]
    /\ UNCHANGED <<blk, netVars>>

SpecCoef == CoefInit /\ [][CallGetCoefficients]_vars

----------------------------------------------------------------------------
(* Block.forward, statement by statement.  log records, for every statement *)
(* executed, the arguments it was given and the value it produced.          *)

Event(step, W, W_old, C, alpha, cf, out) ==
    [step |-> step, W |-> W, W_old |-> W_old, C |-> C, alpha |-> alpha, cf |-> cf,
     out |-> out]

BlockInit ==
    /\ coef = CoefIdle
    /\ NetIdle
    /\ \E theta \in ThetaSet, nW \in 1..MaxNW, nC \in 1..MaxNC, g \in GammaWSet :
         blk = BlkIdle(NewBlock(theta, nW, nC, g))

\* Block.forward(Rx, W, C, C_old) is entered
BlockCall ==
    /\ blk.pc = "idle"
    /\ \E k \in KSet :
       \E Rx \in RxInputs(k), W \in WInputs(k), C \in CInputs(k) :
       \E C_old \in ColdInputs(k) \cup {C} :
         blk' = [BlkIdle(blk.self) EXCEPT !.pc = "alpha", !.Rx = Rx, !.W_in = W,
                                          !.C_in = C, !.C_old_in = C_old]
    /\ UNCHANGED <<coef, netVars>>

\* alpha = self.NN_alpha(W,C)
BlockPredictAlpha ==
    /\ blk.pc = "alpha"
    /\ LET alpha == FCNN_alpha_forward(blk.self.theta, blk.W_in, blk.C_in)
       IN  blk' = [blk EXCEPT !.pc = "coef", !.alpha = alpha,
                     !.log = Append(@, Event("alpha", blk.W_in, NoTensor, blk.C_in,
                                             alpha, NoCoefficients, NoTensor))]
    /\ UNCHANGED <<coef, netVars>>

\* c_w,beta_w,c_c,beta_c = self.get_coefficients(Rx,alpha,C,C_old), then W_iter.forward
\* is entered: W_old = W.clone()
BlockGetCoefficients ==
    /\ blk.pc = "coef"
    /\ LET cf == get_coefficients(blk.self, blk.Rx, blk.alpha, blk.C_in, blk.C_old_in)
       IN  blk' = [blk EXCEPT !.pc = "W", !.cf = cf, !.W = blk.W_in, !.W_old = blk.W_in,
                     !.j = 0,
                     !.log = Append(@, Event("coef", NoTensor, blk.C_old_in, blk.C_in,
                                             blk.alpha, cf, NoTensor))]
    /\ UNCHANGED <<coef, netVars>>

\* one iteration of the loop of W_iter.forward: W,W_old = self.update(...)
BlockWSubStep ==
    /\ blk.pc = "W"
    /\ W_iter_more(blk.self.N_updates_W, blk.j)
    /\ LET r == W_iter_update(blk.Rx, blk.W, blk.W_old, blk.C_in, blk.cf.c_w, blk.cf.beta_w)
       IN  blk' = [blk EXCEPT !.W = r[1], !.W_old = r[2], !.j = @ + 1,
                     !.log = Append(@, Event("W", blk.W, blk.W_old, blk.C_in, blk.alpha,
                                             blk.cf, r[1]))]
    /\ UNCHANGED <<coef, netVars>>

\* W_iter.forward returns W; C_updated,C_old = self.C_iter(Rx,C,W_updated,...)
BlockCUpdate ==
    /\ blk.pc = "W"
    /\ ~W_iter_more(blk.self.N_updates_W, blk.j)
    /\ LET W_updated == blk.W
           r == C_iter_forward(blk.self.N_updates_C, blk.Rx, blk.C_in, W_updated,
                               blk.cf.c_c, blk.cf.beta_c, blk.alpha, blk.self.eps)
       IN  blk' = [blk EXCEPT !.pc = "done", !.C_updated = r[1], !.C_old = r[2],
                     !.log = Append(@, Event("C", W_updated, NoTensor, blk.C_in, blk.alpha,
                                             blk.cf, r[1]))]
    /\ UNCHANGED <<coef, netVars>>

\* return W_updated,C_updated,C_old; the block is ready for its next invocation
BlockReturn ==
    /\ blk.pc = "done"
    /\ blk' = BlkIdle(blk.self)
    /\ UNCHANGED <<coef, netVars>>

BlockNext ==
    \/ BlockCall
    \/ BlockPredictAlpha
    \/ BlockGetCoefficients
    \/ BlockWSubStep
    \/ BlockCUpdate
    \/ BlockReturn

SpecBlock == BlockInit /\ [][BlockNext]_vars

----------------------------------------------------------------------------
(* The model object: GradFalse, forward and the training driver around them *)

\* num_layers of the network
NumLayers == 3

GradFalseModes == {"greedy", "last_layers_lpp"}

ForwardModes == {"first_layer", "greedy", "test", "train"}

Max(a, b) == IF a > b THEN a ELSE b

NetInit ==
    /\ coef = CoefIdle
    /\ blk = BlkIdle(NewBlock(0, 1, 1, <<1, 2>>))
    /\ net \in [0..NumLayers - 1 -> {NewLayer(t, 1) : t \in ThetaSet}]
    /\ maxBlock = 0
    /\ call = CallIdle
    /\ chain = ChainIdle

\* model.GradFalse(block, mode)
CallGradFalse ==
    /\ \E block \in 0..NumLayers + 1, mode \in GradFalseModes :
         LET r == GradFalse(net, block, mode)
         IN  /\ net' = r.Layers
             /\ maxBlock' = Max(maxBlock, block)
             /\ call' = [CallIdle EXCEPT !.op = "GradFalse", !.block = block, !.mode = mode,
                           !.prevMax = maxBlock,
                           !.source = IF block - 1 \in DOMAIN net
                                      THEN net[block - 1].self.theta ELSE 0,
                           !.out.raised = r.raised]
    /\ UNCHANGED <<coef, blk, chain>>

\* W, C = model(Rx, W, C, mode, layer) as the training and test drivers call
\* it: a recognised mode and, in the single-layer modes, an existing layer
CallForward ==
    /\ \E mode \in {"greedy", "test"} :
       \E layer \in (IF mode = "test" THEN {0} ELSE DOMAIN net) :
       LET Rx == [Leaf("Rx", 1, 1) EXCEPT !.q = One]
           W == Leaf("W", 1, 1)
           C == Leaf("C", 3, 1)
       IN  call' = [CallIdle EXCEPT !.op = "forward", !.mode = mode, !.layer = layer,
                      !.Rx = Rx, !.W = W, !.C = C,
                      !.out = myModel_forward(net, Rx, W, C, mode, layer)]
    /\ UNCHANGED <<coef, blk, net, maxBlock, chain>>

\* loss.backward() in the training driver: a gradient accumulates in the
\* parameters of every layer that requires gradients
Backward ==
    /\ \E i \in DOMAIN net : net[i].requires_grad
    /\ net' = [i \in DOMAIN net |->
                 IF net[i].requires_grad THEN [net[i] EXCEPT !.grad = "set"] ELSE net[i]]
    /\ call' = CallIdle
    /\ UNCHANGED <<coef, blk, maxBlock, chain>>

\* optimizer.step() in the training driver: parameters that hold a gradient move
OptimizerStep ==
    /\ \E i \in DOMAIN net :
         /\ net[i].grad = "set"
         /\ \E t \in ThetaSet \ {net[i].self.theta} :
              net' = [net EXCEPT ![i].self.theta = t]
    /\ call' = CallIdle
    /\ UNCHANGED <<coef, blk, maxBlock, chain>>

NetNext ==
    \/ CallGradFalse
    \/ CallForward
    \/ Backward
    \/ OptimizerStep

Spec == NetInit /\ [][NetNext]_vars

----------------------------------------------------------------------------
(* One call of myModel.forward with arbitrary arguments *)

ForwardInit ==
    /\ coef = CoefIdle
    /\ blk = BlkIdle(NewBlock(0, 1, 1, <<1, 2>>))
    /\ net \in [0..NumLayers - 1 -> {NewLayer(t, 1) : t \in ThetaSet}]
    /\ maxBlock = 0
    /\ call = CallIdle
    /\ chain = ChainIdle

\* model(Rx, W, C, mode, layer) with any mode string and any integer layer
CallForwardAny ==
    /\ call.op = "none"
    /\ \E mode \in ForwardModes, layer \in -NumLayers - 1..NumLayers :
       \E k \in KSet :
       \E Rx \in RxInputs(k), W \in WInputs(k), C \in CInputs(k) :
         call' = [CallIdle EXCEPT !.op = "forward", !.mode = mode, !.layer = layer,
                    !.Rx = Rx, !.W = W, !.C = C,
                    !.out = myModel_forward(net, Rx, W, C, mode, layer)]
    /\ UNCHANGED <<coef, blk, net, maxBlock, chain>>

SpecForward == ForwardInit /\ [][CallForwardAny]_vars

----------------------------------------------------------------------------
(* Test-mode inference next to a manual chain of single-block calls *)

\* N_updates_W of the layers of the network under test
ChainNWSet == {1, 2}

ChainRx == {[Leaf("Rx", 1, 1) EXCEPT !.q = One]}
ChainC == {Leaf("C", m, 1) : m \in {1, 3}}

ChainInit ==
    /\ coef = CoefIdle
    /\ blk = BlkIdle(NewBlock(0, 1, 1, <<1, 2>>))
    /\ \E nW \in ChainNWSet :
         net \in [0..NumLayers - 1 -> {NewLayer(t, nW) : t \in ThetaSet}]
    /\ maxBlock = 0
    /\ call = CallIdle
    /\ chain = ChainIdle

\* the first call of the chain: model(Rx, W, C, mode, layer=0) on fresh inputs
ChainFirst ==
    /\ chain.i = 0
    /\ \E Rx \in ChainRx, C \in ChainC, mode \in {"first_layer", "greedy"} :
       \E W \in {Leaf("W", 1, 1)} :
       \E r \in {myModel_forward(net, Rx, W, C, mode, 0)} :
         chain' = [i |-> 1, Rx |-> Rx, W0 |-> W, C0 |-> C, W |-> r.W, C |-> r.C,
                   calls |-> r.calls]
    /\ UNCHANGED <<coef, blk, net, maxBlock, call>>

\* the next call of the chain: layer i on the (W, C) the previous call returned
ChainNext ==
    /\ chain.i >= 1
    /\ chain.i < NumLayersOf(net)
    /\ \E mode \in {"first_layer", "greedy"} :
       \E r \in {myModel_forward(net, chain.Rx, chain.W, chain.C, mode, chain.i)} :
         chain' = [chain EXCEPT !.i = @ + 1, !.W = r.W, !.C = r.C,
                                !.calls = @ \o r.calls]
    /\ UNCHANGED <<coef, blk, net, maxBlock, call>>

\* model(Rx, W, C, 'test') on the inputs the chain started from
ChainTest ==
    /\ chain.i >= 1
    /\ call.op = "none"
    /\ call' = [CallIdle EXCEPT !.op = "forward", !.mode = "test",
                   !.Rx = chain.Rx, !.W = chain.W0, !.C = chain.C0,
                   !.out = myModel_forward(net, chain.Rx, chain.W0, chain.C0, "test", 0)]
    /\ UNCHANGED <<coef, blk, net, maxBlock, chain>>

ChainNextStep ==
    \/ ChainFirst
    \/ ChainNext
    \/ ChainTest

SpecChain == ChainInit /\ [][ChainNextStep]_vars

----------------------------------------------------------------------------
(* Claims about Block.get_coefficients *)

RPositive(a) == RLt(RZero, a)

InUnitInterval(a) == RLe(RZero, a) /\ RLt(a, One)

\* the inputs the contract of get_coefficients calls admissible
Admissible(c) ==
    /\ RPositive(c.alpha) /\ IsFinite(c.alpha)
    /\ RPositive(spectral_norm_extracted(c.Rx, c.C.K, c.C.K))
    /\ RPositive(lipschitz(c.C, spectral_norm_extracted(c.Rx, c.C.K, c.C.K)))
    /\ RPositive(lipschitz(c.C_old, spectral_norm_extracted(c.Rx, c.C.K, c.C.K)))

\* C3: for every alpha > 0, K >= 1 and admissible Rx, C, C_old, get_coefficients
\* returns c_w > 0, c_c > 0, 0 <= beta_w < 1 and 0 <= beta_c < 1.
C3_CoefficientRanges ==
    (coef.called /\ Admissible(coef)) =>
        /\ RPositive(coef.out.c_w)
        /\ RPositive(coef.out.c_c)
        /\ InUnitInterval(coef.out.beta_w)
        /\ InUnitInterval(coef.out.beta_c)

\* the part of C3 the code does satisfy: everything but beta_w < 1
C3_AllButBetaW ==
    (coef.called /\ Admissible(coef)) =>
        /\ RPositive(coef.out.c_w)
        /\ RPositive(coef.out.c_c)
        /\ RLe(RZero, coef.out.beta_w)
        /\ InUnitInterval(coef.out.beta_c)

\* the call sequence of myModel.forward, which always passes C_old = C.clone()
C3_RangesWhenColdIsC ==
    (coef.called /\ Admissible(coef) /\ coef.C_old.mag = coef.C.mag) =>
        InUnitInterval(coef.out.beta_w)

AllFinite(out) ==
    IsFinite(out.c_w) /\ IsFinite(out.beta_w) /\ IsFinite(out.c_c) /\ IsFinite(out.beta_c)

\* C5: when alpha (a denominator of the derivation) is zero, get_coefficients
\* signals a numerical-stability failure or clamps alpha; it never returns
\* coefficients computed from the division by zero.
C5_ZeroAlphaIsGuarded ==
    (coef.called /\ coef.alpha = RZero) => (coef.out.raised \/ AllFinite(coef.out))

----------------------------------------------------------------------------
(* Claims about Block.forward, W_iter and C_iter *)

\* the statement-by-statement run agrees with Block_forward
BlockRunIsBlockForward ==
    blk.pc = "done" =>
        <<blk.W, blk.C_updated, blk.C_old>>
            = Block_forward(blk.self, blk.Rx, blk.W_in, blk.C_in, blk.C_old_in)

IsW(e) == e.step = "W"
IsC(e) == e.step = "C"

\* the events of the W sub-steps executed so far, in order
WEvents == SelectSeq(blk.log, IsW)

\* the iterate W_j: W_0 is the block's input, W_j the result of sub-step j
Iterate(j) == IF j = 0 THEN blk.W_in ELSE WEvents[j].out

\* the statement expected at position i of the log of a block with nW sub-steps
ExpectedStep(i, nW) ==
    IF i = 1 THEN "alpha"
    ELSE IF i = 2 THEN "coef"
    ELSE IF i <= 2 + nW THEN "W"
    ELSE "C"

\* C6: Block.forward predicts alpha from its input (W, C), derives the four
\* coefficients once from (Rx, alpha, input C, C_old), runs all N_updates_W W
\* sub-steps with C at its input value, and only then the C update, which is
\* given the fully updated W; one alpha and one coefficient set serve every step.
C6_BlockStepOrder ==
    LET nW == blk.self.N_updates_W
        log == blk.log
    IN  /\ Len(log) <= nW + 3
        /\ blk.pc = "done" => Len(log) = nW + 3
        /\ \A i \in 1..Len(log) :
             /\ log[i].step = ExpectedStep(i, nW)
             /\ log[i].C = blk.C_in
             /\ log[i].alpha = log[1].alpha
             /\ i >= 3 => log[i].cf = log[2].cf
        /\ Len(log) >= 1 => log[1].W = blk.W_in
        /\ Len(log) >= 2 =>
             /\ log[2].W_old = blk.C_old_in
             /\ log[2].cf = get_coefficients(blk.self, blk.Rx, log[1].alpha, blk.C_in,
                                             blk.C_old_in)
        /\ Len(log) = nW + 3 => log[nW + 3].W = Iterate(nW)

C6_Witness ==
    blk.pc = "done" /\ blk.self.N_updates_W >= 2 /\ Len(WEvents) = blk.self.N_updates_W

\* C7: W_iter.forward performs exactly N_updates_W sub-steps; sub-step 1
\* extrapolates with W_old = W_0, so its inertial term is zero; sub-step j >= 2
\* extrapolates from W_{j-1} with W_old = W_{j-2}; C is the same in every sub-step.
C7_InertiaUsesPrecedingIterate ==
    /\ blk.pc = "done" => Len(WEvents) = blk.self.N_updates_W
    /\ \A j \in 1..Len(WEvents) :
         /\ WEvents[j].W = Iterate(j - 1)
         /\ WEvents[j].W_old = (IF j = 1 THEN Iterate(0) ELSE Iterate(j - 2))
         /\ WEvents[j].C = blk.C_in
         /\ j = 1 => W_iter_inertial_step(blk.cf.beta_w, WEvents[j].W, WEvents[j].W_old)
                        = blk.W_in
         /\ j >= 2 => WEvents[j].W_old # WEvents[j].W

C7_Witness ==
    /\ blk.pc = "done" /\ Len(WEvents) >= 3
    /\ WEvents[3].W_old = Iterate(1) /\ Iterate(1) # blk.W_in

\* C8: for every N_updates_C >= 1, C_iter.forward performs exactly one
\* inertial/gradient/proximal sub-step and returns (C after that sub-step, the C
\* it was given); the result is the one N_updates_C = 1 gives.
C8_SingleCSubStep ==
    blk.pc = "done" =>
        LET once == C_iter_update(blk.Rx, blk.C_in, blk.C_in, blk.W, blk.cf.c_c,
                                  blk.cf.beta_c, blk.alpha, blk.self.eps)
        IN  /\ blk.C_updated = once[1]
            /\ blk.C_old = blk.C_in
            /\ <<blk.C_updated, blk.C_old>>
                 = C_iter_forward(1, blk.Rx, blk.C_in, blk.W, blk.cf.c_c, blk.cf.beta_c,
                                  blk.alpha, blk.self.eps)
            /\ Len(SelectSeq(blk.log, IsC)) = 1

C8_Witness == blk.pc = "done" /\ blk.self.N_updates_C >= 2

\* finite inertial weights a run of C_iter.forward may be given instead of beta_c
BetaAlternatives == {<<0, 1>>, <<1, 4>>, <<9, 10>>}

\* the C that C_iter.forward returns when it is given beta_c = b
CWithBeta(b) ==
    C_iter_forward(blk.self.N_updates_C, blk.Rx, blk.C_in, blk.W, blk.cf.c_c, b,
                   blk.alpha, blk.self.eps)[1]

\* the result of the same block invocation when it is handed C_old = c
BlockWithCold(c) == Block_forward(blk.self, blk.Rx, blk.W_in, blk.C_in, c)

\* C9 as stated: the returned C depends neither on beta_c nor on the C_old
\* handed to the block.
C9_IndependentOfBetaAndCold ==
    blk.pc = "done" =>
        /\ \A b \in BetaAlternatives : CWithBeta(b) = blk.C_updated
        /\ \A c \in ColdInputs(blk.C_in.K) \cup {blk.C_in} :
             BlockWithCold(c)[2] = blk.C_updated

\* C9 amended: the returned C does not depend on beta_c (the inertial term is
\* zero, the result is the proximal-gradient step from the C given), and a run
\* handed another C_old returns the same C whenever it produces the same
\* W_updated, which is always the case when N_updates_W = 1.
C9_IndependentOfBetaGivenW ==
    blk.pc = "done" =>
        /\ \A b \in BetaAlternatives : CWithBeta(b) = blk.C_updated
        /\ blk.C_updated
             = C_iter_prox_step(blk.cf.c_c,
                                C_iter_gradient_step(blk.Rx, blk.cf.c_c, blk.C_in, blk.W,
                                                     blk.alpha),
                                blk.self.eps)
        /\ \A c \in ColdInputs(blk.C_in.K) \cup {blk.C_in} :
             /\ BlockWithCold(c)[1] = blk.W => BlockWithCold(c)[2] = blk.C_updated
             /\ blk.self.N_updates_W = 1 => BlockWithCold(c)[1] = blk.W

C9_Witness ==
    /\ blk.pc = "done" /\ blk.C_old_in # blk.C_in /\ RPositive(blk.cf.beta_c)
    /\ blk.self.N_updates_W = 1

----------------------------------------------------------------------------
(* Claims about myModel *)

Frozen(layer) == ~layer.requires_grad /\ layer.grad = None /\ ~layer.training

Trainable(layer) == layer.requires_grad

\* C2: after GradFalse(block=k, mode='greedy') with 1 <= k < num_layers, on a
\* network whose layers were activated in increasing index order, every layer
\* i < k is frozen (non-trainable, gradient cleared, evaluation mode), layer k
\* is trainable, and layer k holds the parameters layer k-1 held before the call.
C2_ActivateLayer ==
    (/\ call.op = "GradFalse" /\ call.mode = "greedy"
     /\ 1 <= call.block /\ call.block < NumLayersOf(net)
     /\ call.prevMax <= call.block)
    => /\ ~call.out.raised
       /\ \A i \in 0..call.block - 1 : Frozen(net[i])
       /\ Trainable(net[call.block])
       /\ net[call.block].self.theta = call.source
       /\ net[call.block - 1].self.theta = call.source

C2_Witness ==
    /\ call.op = "GradFalse" /\ call.mode = "greedy" /\ call.block = 2 /\ call.prevMax = 1
    /\ net[2].self.theta = call.source /\ net[2].self.theta # net[0].self.theta

\* the indices below the largest block argument seen so far
BelowMaxBlock == {i \in DOMAIN net : i < maxBlock}

FrozenLayers == {i \in DOMAIN net : ~net[i].requires_grad /\ ~net[i].training}

\* C10 as stated: the set of frozen layers is always exactly the indices below
\* the largest block argument seen so far.
C10_FrozenIsBelowMaxBlock == FrozenLayers = BelowMaxBlock

\* C10 amended: freezing is irreversible, and the frozen layers are exactly the
\* indices below the largest block argument of the calls that reached the
\* freezing loop, that is, of every call but a 'greedy' one with
\* block >= num_layers, which raises IndexError before it freezes anything.
C10_FrozenStaysFrozen ==
    [][/\ FrozenLayers \subseteq FrozenLayers'
       /\ \A i \in FrozenLayers : net'[i].grad = None
       /\ FrozenLayers' \subseteq BelowMaxBlock'
       /\ (call'.op = "GradFalse" /\ call'.block = 0) => net' = net
       /\ (call'.op = "forward") => net' = net
       /\ (call'.op = "GradFalse"
           /\ ~(call'.mode = "greedy" /\ call'.block >= NumLayersOf(net)))
          => /\ \A i \in DOMAIN net : i < call'.block => i \in FrozenLayers'
             /\ FrozenLayers' = FrozenLayers \cup {i \in DOMAIN net : i < call'.block}
       /\ (call'.op = "GradFalse" /\ call'.mode = "greedy"
           /\ call'.block >= NumLayersOf(net))
          => (call'.out.raised /\ net' = net)]_vars

C10_Witness ==
    /\ call.op = "GradFalse" /\ call.block = 1 /\ call.prevMax = 2 /\ call.mode = "greedy"
    /\ FrozenLayers = {0, 1}

\* C4: myModel.forward with an unrecognised mode, or with a layer index outside
\* 0..num_layers-1, fails with an error and returns no (W, C).
C4_MisuseRaises ==
    (/\ call.op = "forward"
     /\ \/ call.mode \notin {"first_layer", "greedy", "test"}
        \/ call.layer \notin 0..NumLayersOf(net) - 1)
    => call.out.raised

\* the only misuse the code does reject: a single-layer mode with a layer index
\* outside -num_layers..num_layers-1
C4_OnlyIndexErrorRaises ==
    call.op = "forward" =>
        (call.out.raised <=> (/\ call.mode \in {"first_layer", "greedy"}
                              /\ ~IndexInRange(net, call.layer)))

\* C1: for a network of L layers, forward in mode 'test' returns the (W, C) that
\* chaining the L single-block calls layer = 0, ..., L-1 returns, each fed the
\* (W, C) of the previous one; in both runs the blocks run in index order and
\* each one is invoked with C_old equal to the C it receives.
C1_TestEqualsChain ==
    (/\ chain.i = NumLayersOf(net)
     /\ call.op = "forward" /\ call.mode = "test")
    => /\ ~call.out.raised
       /\ call.out.W = chain.W
       /\ call.out.C = chain.C
       /\ call.out.calls = chain.calls
       /\ Len(chain.calls) = NumLayersOf(net)
       /\ \A n \in 1..Len(chain.calls) :
            /\ chain.calls[n].layer = n - 1
            /\ chain.calls[n].C_old = chain.calls[n].C
            /\ call.out.calls[n].C_old = call.out.calls[n].C

C1_Witness ==
    /\ chain.i = NumLayersOf(net) /\ chain.i >= 3
    /\ call.op = "forward" /\ call.mode = "test"
    /\ net[0].self.N_updates_W = 2
    /\ net[0].self.theta # net[1].self.theta
    /\ call.out.C = chain.C /\ chain.C # chain.C0

====
